---- MODULE Spec2Model ----
(***************************************************************************)
(* voxtus: the pipeline orchestrator (src/main.rs), the configuration      *)
(* resolver (src/config.rs) and the cancellation flag (src/signals.rs).    *)
(*                                                                         *)
(* Strings are sequences of one-character strings, so that splitting,      *)
(* trimming, lower-casing and suffix stripping are computed as the code    *)
(* computes them.  Option<T> is a sequence of length at most one.          *)
(***************************************************************************)
EXTENDS Integers, Sequences, FiniteSets, TLC

\* ------------------------------------------------------------------ bounds
\* Signal deliveries counted per run (SIGINT / SIGTERM may arrive repeatedly).
MaxSignals == 2

\* ----------------------------------------------------------------- strings
None == <<>>
Some(x) == <<x>>
IsSome(o) == Len(o) = 1
Unwrap(o) == o[1]

\* char::is_whitespace, on the characters the inputs use
IsWhitespace(c) == c \in {" ", "\t", "\n", "\r"}

\* char::to_lowercase / to_ascii_lowercase, on the letters the inputs use
LowerChar(c) ==
    CASE c = "T" -> "t" [] c = "X" -> "x" [] c = "J" -> "j" [] c = "S" -> "s"
      [] c = "O" -> "o" [] c = "N" -> "n" [] c = "R" -> "r" [] c = "V" -> "v"
      [] c = "Y" -> "y" [] c = "E" -> "e"
      [] OTHER -> c

to_lowercase(s) == [i \in 1..Len(s) |-> LowerChar(s[i])]

RECURSIVE trim_start(_)
trim_start(s) ==
    IF s # <<>> /\ IsWhitespace(s[1]) THEN trim_start(Tail(s)) ELSE s

RECURSIVE trim_end(_)
trim_end(s) ==
    IF s # <<>> /\ IsWhitespace(s[Len(s)])
    THEN trim_end(SubSeq(s, 1, Len(s) - 1))
    ELSE s

trim(s) == trim_end(trim_start(s))

starts_with(s, p) == Len(s) >= Len(p) /\ SubSeq(s, 1, Len(p)) = p

ends_with(s, p) == Len(s) >= Len(p) /\ SubSeq(s, Len(s) - Len(p) + 1, Len(s)) = p

\* str::strip_suffix: Some(prefix) when s ends with p, None otherwise
strip_suffix(s, p) ==
    IF ends_with(s, p) THEN Some(SubSeq(s, 1, Len(s) - Len(p))) ELSE None

\* str::split(','): "" yields one empty token, "a," yields "a" and ""
RECURSIVE SplitFrom(_, _, _)
SplitFrom(s, i, cur) ==
    IF i > Len(s) THEN <<cur>>
    ELSE IF s[i] = "," THEN <<cur>> \o SplitFrom(s, i + 1, <<>>)
    ELSE SplitFrom(s, i + 1, Append(cur, s[i]))

split_comma(s) == SplitFrom(s, 1, <<>>)

\* Iterator::filter(|s| !s.is_empty()) after map(trim)
RECURSIVE TrimmedNonEmpty(_)
TrimmedNonEmpty(toks) ==
    IF toks = <<>> THEN <<>>
    ELSE LET t == trim(Head(toks))
         IN  IF t = <<>> THEN TrimmedNonEmpty(Tail(toks))
             ELSE <<t>> \o TrimmedNonEmpty(Tail(toks))

\* eq_ignore_ascii_case
eq_ignore_ascii_case(a, b) == to_lowercase(a) = to_lowercase(b)

\* ------------------------------------------------------------------ errors
\* an error kind of src/error.rs with the value it carries, if any
NoArg == <<>>
Error(kind, arg) == [kind |-> kind, arg |-> arg]
NoError == Error("none", NoArg)
Ok(v) == [ok |-> TRUE, val |-> v, err |-> NoError]
Err(e) == [ok |-> FALSE, val |-> <<>>, err |-> e]

\* ---------------------------------------------------- configuration resolver
OutputFormats == {"Txt", "Json", "Srt", "Vtt"}

\* from_str matching the token as written, upper case letters included
from_str_exact(s) ==
    CASE s = <<"t", "x", "t">> -> Ok("Txt")
      [] s = <<"j", "s", "o", "n">> -> Ok("Json")
      [] s = <<"s", "r", "t">> -> Ok("Srt")
      [] s = <<"v", "t", "t">> -> Ok("Vtt")
      [] OTHER -> Err(Error("InvalidFormat", Some(s)))

\* OutputFormat::from_str
from_str(s) ==
    LET l == to_lowercase(s)
    IN  CASE l = <<"t", "x", "t">> -> Ok("Txt")
          [] l = <<"j", "s", "o", "n">> -> Ok("Json")
          [] l = <<"s", "r", "t">> -> Ok("Srt")
          [] l = <<"v", "t", "t">> -> Ok("Vtt")
          [] OTHER -> Err(Error("InvalidFormat", Some(s)))

\* OutputFormat::extension
extension(f) ==
    CASE f = "Txt" -> <<"t", "x", "t">>
      [] f = "Json" -> <<"j", "s", "o", "n">>
      [] f = "Srt" -> <<"s", "r", "t">>
      [] f = "Vtt" -> <<"v", "t", "t">>

\* collect::<Result<Vec<_>>>(): the first Err in order, else all the values
RECURSIVE CollectFormats(_)
CollectFormats(toks) ==
    IF toks = <<>> THEN Ok(<<>>)
    ELSE LET r == from_str(Head(toks))
         IN  IF ~r.ok THEN Err(r.err)
             ELSE LET rest == CollectFormats(Tail(toks))
                  IN  IF ~rest.ok THEN Err(rest.err)
                      ELSE Ok(<<r.val>> \o rest.val)

\* parse_formats counting the distinct formats for the stdout rule
parse_formats_distinct(format_str, stdout_mode) ==
    LET formats == CollectFormats(TrimmedNonEmpty(split_comma(format_str)))
    IN  IF ~formats.ok THEN Err(formats.err)
        ELSE IF stdout_mode
                /\ Cardinality({formats.val[i] : i \in 1..Len(formats.val)}) > 1
             THEN Err(Error("MultipleFormatsWithStdout", NoArg))
             ELSE Ok(formats.val)

\* parse_formats applying the stdout rule to the non-empty tokens before any
\* of them is mapped to a format
parse_formats_count_first(format_str, stdout_mode) ==
    LET toks == TrimmedNonEmpty(split_comma(format_str))
        formats == CollectFormats(toks)
    IN  IF stdout_mode /\ Len(toks) > 1
        THEN Err(Error("MultipleFormatsWithStdout", NoArg))
        ELSE IF ~formats.ok THEN Err(formats.err)
             ELSE Ok(formats.val)

parse_formats(format_str, stdout_mode) ==
    LET formats == CollectFormats(TrimmedNonEmpty(split_comma(format_str)))
    IN  IF ~formats.ok THEN Err(formats.err)
        ELSE IF stdout_mode /\ Len(formats.val) > 1
             THEN Err(Error("MultipleFormatsWithStdout", NoArg))
             ELSE Ok(formats.val)

\* AVAILABLE_MODELS, by name
AVAILABLE_MODELS ==
    {"tiny", "tiny.en", "base", "base.en", "small", "small.en",
     "medium", "medium.en", "large", "large-v2", "large-v3"}

\* validate_model without the "large" alias
validate_model_unaliased(model) ==
    IF model \in AVAILABLE_MODELS
    THEN [ok |-> TRUE, val |-> model, err |-> NoError]
    ELSE [ok |-> FALSE, val |-> "", err |-> Error("InvalidModel", Some(model))]

validate_model(model) ==
    LET normalized == IF model = "large" THEN "large-v3" ELSE model
    IN  IF normalized \in AVAILABLE_MODELS
        THEN [ok |-> TRUE, val |-> normalized, err |-> NoError]
        ELSE [ok |-> FALSE, val |-> "", err |-> Error("InvalidModel", Some(model))]

DotTxt == <<".", "t", "x", "t">>

\* strip_txt_extension taking the suffix in any letter case
strip_txt_extension_any_case(name) ==
    IF Len(name) >= 4 /\ eq_ignore_ascii_case(SubSeq(name, Len(name) - 3, Len(name)), DotTxt)
    THEN SubSeq(name, 1, Len(name) - 4)
    ELSE name

strip_txt_extension(name) ==
    LET r == strip_suffix(name, DotTxt)
    IN  IF IsSome(r) THEN Unwrap(r) ELSE name

\* config::get_final_name (not called by the orchestrator)
get_final_name(title, custom_name) ==
    IF IsSome(custom_name) /\ Unwrap(custom_name) # <<>>
    THEN Unwrap(custom_name)
    ELSE title

is_url(input) ==
    \/ starts_with(input, <<"h", "t", "t", "p", ":", "/", "/">>)
    \/ starts_with(input, <<"h", "t", "t", "p", "s", ":", "/", "/">>)

\* resolve_output_dir: the directory is created when it does not exist, and
\* the error of create_dir_all is propagated
resolve_output_dir(exists, create_ok) ==
    IF exists \/ create_ok THEN Ok(<<>>) ELSE Err(Error("Io", NoArg))

\* output_dir resolved before the formats and the model are validated
output_dir_after_eager(a, dir_there, create_ok) == dir_there \/ create_ok

\* whether output_dir exists once from_args has returned: resolve_output_dir
\* is reached only when parse_formats and validate_model have succeeded
output_dir_after(a, dir_there, create_ok) ==
    \/ dir_there
    \/ /\ parse_formats(a.format, a.stdout).ok
       /\ validate_model(a.model).ok
       /\ create_ok

\* Config::from_args, given whether output_dir exists and whether creating it
\* would succeed
from_args(a, dir_there, create_ok) ==
    LET formats == parse_formats(a.format, a.stdout)
        model == validate_model(a.model)
        output_dir == resolve_output_dir(dir_there, create_ok)
    IN  IF ~formats.ok THEN Err(formats.err)
        ELSE IF ~model.ok THEN Err(model.err)
        ELSE IF ~output_dir.ok THEN Err(output_dir.err)
        ELSE Ok([input_path |-> IF IsSome(a.input) THEN Unwrap(a.input) ELSE <<>>,
                 formats |-> formats.val,
                 custom_name |-> IF IsSome(a.name)
                                 THEN Some(strip_txt_extension(Unwrap(a.name)))
                                 ELSE None,
                 keep_audio |-> a.keep,
                 model |-> model.val,
                 overwrite_files |-> a.overwrite,
                 stdout_mode |-> a.stdout])

\* ------------------------------------------------------------------- paths
RECURSIVE LastIndexOf(_, _, _)
LastIndexOf(s, c, i) ==
    IF i = 0 THEN 0 ELSE IF s[i] = c THEN i ELSE LastIndexOf(s, c, i - 1)

\* Path::file_name: the last component, None for "", "." and ".."
file_name(p) ==
    LET k == LastIndexOf(p, "/", Len(p))
        n == SubSeq(p, k + 1, Len(p))
    IN  IF n \in {<<>>, <<".">>, <<".", ".">>} THEN None ELSE Some(n)

\* Path::file_stem: the name up to its last dot; the whole name when it has no
\* dot, or only a leading one
file_stem(p) ==
    LET n == file_name(p)
    IN  IF ~IsSome(n) THEN None
        ELSE LET d == LastIndexOf(Unwrap(n), ".", Len(Unwrap(n)))
             IN  IF d <= 1 THEN n ELSE Some(SubSeq(Unwrap(n), 1, d - 1))

\* Path::extension: what follows the last dot, None when file_stem is the name
path_extension(p) ==
    LET n == file_name(p)
    IN  IF ~IsSome(n) THEN None
        ELSE LET d == LastIndexOf(Unwrap(n), ".", Len(Unwrap(n)))
             IN  IF d <= 1 THEN None
                 ELSE Some(SubSeq(Unwrap(n), d + 1, Len(Unwrap(n))))

\* ------------------------------------------------------------------ inputs
S_txt == <<"t", "x", "t">>
S_JSON == <<"J", "S", "O", "N">>
S_txt_json == <<"t", "x", "t", ",", " ", "j", "s", "o", "n">>
S_txt_txt == <<"t", "x", "t", ",", "t", "x", "t">>
S_srt_vtt == <<"s", "r", "t", ",", "V", "T", "T">>
S_empty == <<>>
S_txt_bad == <<"t", "x", "t", ",", "x", "y">>

\* values of --format
FormatSpecs == {S_txt, S_JSON, S_txt_json, S_txt_txt, S_srt_vtt, S_empty, S_txt_bad}

\* values of --name
NameArgs == {None, Some(<<>>), Some(DotTxt), Some(<<"o", ".", "t", "x", "t">>)}

Url == <<"h", "t", "t", "p", "s", ":", "/", "/", "v">>
ClipMp3 == <<"c", ".", "m", "p", "3">>
ClipWav == <<"c", ".", "w", "a", "v">>
GoneWav == <<"g", ".", "w", "a", "v">>
ParentDir == <<".", ".">>

\* values of the positional input
InputArgs == {Url, ClipMp3, ClipWav, GoneWav, ParentDir}

\* the local paths that exist: two media files and a directory without a stem
LocalFiles == {ClipMp3, ClipWav, ParentDir}

\* values of --model
ModelArgs == {"large", "huge"}

\* the title the acquisition collaborator discovers for Url
VideoTitle == <<"v">>

\* the base names a run can write under, for the files that exist before it
BaseNames == {<<"c">>, <<"v">>, <<"o">>, <<>>}

OldContent == [kind |-> "old", of |-> <<>>]

\* the output directory before the run: every base name has a file of each
\* extension of exts
OutputDirWith(exts) ==
    [p \in {b \o <<".">> \o e : b \in BaseNames, e \in exts} |-> OldContent]

PreExistingExts == {S_txt, <<"j", "s", "o", "n">>}

\* the extensions of the files found in output_dir: any of the text outputs
\* above, or audio kept by an earlier run
PreExistingSets == SUBSET PreExistingExts \cup {{<<"m", "p", "3">>}}

\* what the user types at an overwrite prompt, newline included
Responses ==
    {<<"y", "\n">>, <<"Y", "\n">>, <<"n", "\n">>, <<"y", "e", "s", "\n">>, <<>>}

\* ------------------------------------------------------------------- state
VARIABLES
    args,        \* the parsed command line (cli::Args)
    fs0,         \* the files of output_dir before the run
    dir_exists,  \* output_dir exists
    pc,          \* where the run is
    config,      \* Option<Config>
    shutdown,    \* SHUTDOWN_REQUESTED
    signals,     \* signal deliveries so far
    at_cp1,      \* the flag when the post-acquisition checkpoint was evaluated
    at_cp2,      \* the flag when the post-transcription checkpoint was evaluated
    title,       \* the title stage 1 returned
    transcript,  \* Option<Transcript>
    idx,         \* output_transcript's position in config.formats
    fs,          \* the files of output_dir
    stdout,      \* what was printed to standard output
    temp_dir,    \* the temporary working directory exists
    trace,       \* collaborator calls, prompts and writes, in order
    result,      \* how the run ended
    exit_code,   \* the process exit code, -1 while running
    fn_in,       \* the arguments of a function called on its own
    fn_out       \* Option of what that function returned

vars ==
    <<args, fs0, dir_exists, pc, config, shutdown, signals, at_cp1, at_cp2, title,
      transcript, idx, fs, stdout, temp_dir, trace, result, exit_code, fn_in, fn_out>>

Event(ev, arg) == [ev |-> ev, arg |-> arg]
Called(ev) == \E i \in 1..Len(trace) : trace[i].ev = ev

Cfg == Unwrap(config)

Init ==
    /\ args \in [format : FormatSpecs, stdout : BOOLEAN, keep : BOOLEAN,
                 overwrite : BOOLEAN, name : NameArgs,
                 input : {Some(i) : i \in InputArgs},
                 model : ModelArgs, list_models : BOOLEAN]
    /\ dir_exists \in BOOLEAN
    /\ fs0 \in {OutputDirWith(e) : e \in IF dir_exists THEN PreExistingSets ELSE {{}}}
    /\ pc = "run"
    /\ config = None
    /\ shutdown = FALSE
    /\ signals = 0
    /\ at_cp1 = "none"
    /\ at_cp2 = "none"
    /\ title = <<>>
    /\ transcript = None
    /\ idx = 0
    /\ fs = fs0
    /\ stdout = <<>>
    /\ temp_dir = FALSE
    /\ trace = <<>>
    /\ result = NoError
    /\ exit_code = -1
    /\ fn_in = None
    /\ fn_out = None

\* ------------------------------------------------------- cancellation flag
shutdown_requested_stale == FALSE

shutdown_requested == shutdown

request_shutdown_toggle == shutdown' = ~shutdown

request_shutdown == shutdown' = TRUE

\* the handler setup_signal_handlers installs, run on SIGINT or SIGTERM
Signal ==
    /\ pc # "done"
    /\ signals < MaxSignals
    /\ request_shutdown
    /\ signals' = signals + 1
    /\ UNCHANGED <<fn_in, fn_out, args, fs0, dir_exists, pc, config, at_cp1, at_cp2, title, transcript,
                   idx, fs, stdout, temp_dir, trace, result, exit_code>>

\* ------------------------------------------------------------ orchestrator
\* a refusal to overwrite taken for a clean end
ExitCode_abort_is_success(res) == IF res.kind \in {"Ok", "UserAborted"} THEN 0 ELSE 1

ExitCode_interrupted_fails(res) == IF res.kind = "Ok" /\ ~shutdown THEN 0 ELSE 1

\* run's match on process's result, and the exit codes of its early returns
ExitCode(res) == IF res.kind = "Ok" THEN 0 ELSE 1

OkResult == Error("Ok", NoArg)

\* the run ends with res, the temporary directory left behind
Finish_keeps_temp_dir(res) ==
    /\ pc' = "done"
    /\ result' = res
    /\ exit_code' = ExitCode(res)
    /\ UNCHANGED temp_dir

\* the run ends with res: process returns (dropping temp_dir) and main exits
Finish(res) ==
    /\ pc' = "done"
    /\ result' = res
    /\ exit_code' = ExitCode(res)
    /\ temp_dir' = FALSE

\* run, up to the call of check_ffmpeg; setup_logger installs the process's
\* only logger, so its apply() succeeds
Run ==
    /\ pc = "run"
    /\ IF args.list_models
       THEN /\ stdout' = Append(stdout, [kind |-> "models", of |-> <<>>])
            /\ Finish(OkResult)
            /\ UNCHANGED <<config, trace, dir_exists>>
       ELSE \E create_ok \in BOOLEAN :
            LET c == from_args(args, dir_exists, create_ok)
            IN  /\ dir_exists' = output_dir_after(args, dir_exists, create_ok)
                /\ IF ~c.ok
                   THEN /\ Finish(c.err)
                        /\ UNCHANGED <<config, trace, stdout>>
                   ELSE /\ config' = Some(c.val)
                        /\ trace' = Append(trace, Event("check_ffmpeg", <<>>))
                        /\ pc' = "check_ffmpeg"
                        /\ UNCHANGED <<stdout, result, exit_code, temp_dir>>
    /\ UNCHANGED <<fn_in, fn_out, args, fs0, shutdown, signals, at_cp1, at_cp2, title,
                   transcript, idx, fs>>

\* check_ffmpeg returns; on success process starts and creates temp_dir
CheckFfmpegReturn ==
    /\ pc = "check_ffmpeg"
    /\ \E ok \in BOOLEAN :
         IF ok
         THEN /\ pc' = "process"
              /\ UNCHANGED <<result, exit_code, temp_dir>>
         ELSE Finish(Error("FfmpegNotFound", NoArg))
    /\ UNCHANGED <<fn_in, fn_out, args, fs0, dir_exists, config, shutdown, signals, at_cp1, at_cp2, title,
                   transcript, idx, fs, stdout, trace>>

\* the existence test skipped
path_exists_unchecked(path) == TRUE

\* Path::exists
path_exists(path) == path \in LocalFiles

\* every local input sent to the conversion collaborator
is_mp3_never(input_path) == FALSE

\* input_path.extension().is_some_and(|e| e == "mp3")
is_mp3(input_path) == path_extension(input_path) = Some(<<"m", "p", "3">>)

\* convert_local_file, up to the copy or the call of convert_to_mp3
ConvertLocalFileStart ==
    LET input_path == Cfg.input_path
        stem == file_stem(input_path)
    IN  IF ~path_exists(input_path)
        THEN /\ Finish(Error("FileNotFound", Some(input_path)))
             /\ UNCHANGED <<title, trace>>
        ELSE /\ title' = IF IsSome(stem) THEN Unwrap(stem) ELSE <<"a", "u", "d", "i", "o">>
             /\ temp_dir' = TRUE
             /\ IF is_mp3(input_path)
                THEN /\ trace' = Append(trace, Event("copy_input", input_path))
                     /\ pc' = "copy_input"
                ELSE /\ trace' = Append(trace, Event("convert", input_path))
                     /\ pc' = "convert"
             /\ UNCHANGED <<result, exit_code>>

\* process, from tempfile::tempdir to the first call of stage 1
ProcessStart ==
    /\ pc = "process"
    /\ \E ok \in BOOLEAN :
         IF ~ok
         THEN /\ Finish(Error("Io", NoArg))
              /\ UNCHANGED <<title, trace>>
         ELSE IF is_url(Cfg.input_path)
              THEN /\ trace' = Append(trace, Event("download", Cfg.input_path))
                   /\ pc' = "download"
                   /\ temp_dir' = TRUE
                   /\ UNCHANGED <<title, result, exit_code>>
              ELSE ConvertLocalFileStart
    /\ UNCHANGED <<fn_in, fn_out, args, fs0, dir_exists, config, shutdown, signals, at_cp1, at_cp2,
                   transcript, idx, fs, stdout>>

\* download_audio_sync returns; on success convert_to_mp3 is called
DownloadReturn ==
    /\ pc = "download"
    /\ \E ok \in BOOLEAN :
         IF ok
         THEN /\ title' = VideoTitle
              /\ trace' = Append(trace, Event("convert", Cfg.input_path))
              /\ pc' = "convert"
              /\ UNCHANGED <<result, exit_code, temp_dir>>
         ELSE /\ Finish(Error("DownloadFailed", NoArg))
              /\ UNCHANGED <<title, trace>>
    /\ UNCHANGED <<fn_in, fn_out, args, fs0, dir_exists, config, shutdown, signals, at_cp1, at_cp2,
                   transcript, idx, fs, stdout>>

\* convert_to_mp3 returns to download_and_convert or convert_local_file
ConvertReturn ==
    /\ pc = "convert"
    /\ \E ok \in BOOLEAN :
         IF ok
         THEN /\ pc' = "checkpoint1"
              /\ UNCHANGED <<result, exit_code, temp_dir>>
         ELSE Finish(Error("FfmpegError", NoArg))
    /\ UNCHANGED <<fn_in, fn_out, args, fs0, dir_exists, config, shutdown, signals, at_cp1, at_cp2, title,
                   transcript, idx, fs, stdout, trace>>

\* std::fs::copy of an .mp3 input into temp_dir returns
CopyInputReturn ==
    /\ pc = "copy_input"
    /\ \E ok \in BOOLEAN :
         IF ok
         THEN /\ pc' = "checkpoint1"
              /\ UNCHANGED <<result, exit_code, temp_dir>>
         ELSE Finish(Error("Io", NoArg))
    /\ UNCHANGED <<fn_in, fn_out, args, fs0, dir_exists, config, shutdown, signals, at_cp1, at_cp2, title,
                   transcript, idx, fs, stdout, trace>>

FlagValue == IF shutdown THEN "set" ELSE "clear"

\* stage 2 entered without reading the flag
Checkpoint1_unchecked ==
    /\ pc = "checkpoint1"
    /\ at_cp1' = FlagValue
    /\ trace' = Append(trace, Event("transcribe", title))
    /\ pc' = "transcribe"
    /\ UNCHANGED <<fn_in, fn_out, args, fs0, dir_exists, config, shutdown, signals, at_cp2, title,
                   transcript, idx, fs, stdout, result, exit_code, temp_dir>>

\* the check after stage 1; when it passes, transcribe is called
Checkpoint1 ==
    /\ pc = "checkpoint1"
    /\ at_cp1' = FlagValue
    /\ IF shutdown_requested
       THEN /\ Finish(OkResult)
            /\ UNCHANGED trace
       ELSE /\ trace' = Append(trace, Event("transcribe", title))
            /\ pc' = "transcribe"
            /\ UNCHANGED <<result, exit_code, temp_dir>>
    /\ UNCHANGED <<fn_in, fn_out, args, fs0, dir_exists, config, shutdown, signals, at_cp2, title,
                   transcript, idx, fs, stdout>>

\* transcribe returns
TranscribeReturn ==
    /\ pc = "transcribe"
    /\ \E ok \in BOOLEAN :
         IF ok
         THEN /\ transcript' = Some([title |-> title, source |-> Cfg.input_path,
                                     model |-> Cfg.model])
              /\ pc' = "checkpoint2"
              /\ UNCHANGED <<result, exit_code, temp_dir>>
         ELSE /\ Finish(Error("TranscriptionFailed", NoArg))
              /\ UNCHANGED transcript
    /\ UNCHANGED <<fn_in, fn_out, args, fs0, dir_exists, config, shutdown, signals, at_cp1, at_cp2, title,
                   idx, fs, stdout, trace>>

Checkpoint2_unchecked ==
    /\ pc = "checkpoint2"
    /\ at_cp2' = FlagValue
    /\ pc' = "emit"
    /\ idx' = 1
    /\ UNCHANGED <<fn_in, fn_out, args, fs0, dir_exists, config, shutdown, signals, at_cp1, title,
                   transcript, fs, stdout, trace, result, exit_code, temp_dir>>

\* the check after stage 2; when it passes, output_transcript starts
\* the second checkpoint waiting, once the flag is set, for it to be cleared
Checkpoint2_waits ==
    /\ pc = "checkpoint2"
    /\ IF shutdown_requested
       THEN UNCHANGED <<pc, at_cp2, idx, result, exit_code, temp_dir>>
       ELSE /\ at_cp2' = FlagValue
            /\ pc' = "emit"
            /\ idx' = 1
            /\ UNCHANGED <<result, exit_code, temp_dir>>
    /\ UNCHANGED <<fn_in, fn_out, args, fs0, dir_exists, config, shutdown, signals, at_cp1, title,
                   transcript, fs, stdout, trace>>

Checkpoint2 ==
    /\ pc = "checkpoint2"
    /\ at_cp2' = FlagValue
    /\ IF shutdown_requested
       THEN /\ Finish(OkResult)
            /\ UNCHANGED idx
       ELSE /\ pc' = "emit"
            /\ idx' = 1
            /\ UNCHANGED <<result, exit_code, temp_dir>>
    /\ UNCHANGED <<fn_in, fn_out, args, fs0, dir_exists, config, shutdown, signals, at_cp1, title,
                   transcript, fs, stdout, trace>>

\* get_output_name of main.rs
get_output_name(t, c) ==
    IF IsSome(c.custom_name) THEN Unwrap(c.custom_name) ELSE t

\* output_dir.join(format!("{}.{}", name, ext)), relative to output_dir
OutputPath(name, ext) == name \o <<".">> \o ext

\* the renderer output_transcript's match selects, applied to the transcript
Render(format, t) == [kind |-> format, of |-> t.title]

\* what an interrupted fs::write or fs::copy leaves at its destination
Truncated == [kind |-> "truncated", of |-> <<>>]

\* a write that leaves path the only file of the directory
WriteFile_alone(files, path, content) == [p \in {path} |-> content]

WriteFile(files, path, content) ==
    [p \in DOMAIN files \cup {path} |-> IF p = path THEN content ELSE files[p]]

\* output_path.exists() && !config.overwrite_files
NeedsPrompt(path, c, files) == path \in DOMAIN files /\ ~c.overwrite_files

Affirmative_prefix(read) == read.ok /\ starts_with(to_lowercase(trim(read.val)), <<"y">>)

\* the prompt's response is accepted: read_line succeeded and the trimmed line
\* is "y" in either case
Affirmative(read) == read.ok /\ eq_ignore_ascii_case(trim(read.val), <<"y">>)

\* the kept audio named after the title even when --name is given
final_audio_from_title(t, c) == OutputPath(t, <<"m", "p", "3">>)

\* config.output_dir.join(format!("{}.mp3", get_output_name(&title, config)))
final_audio(t, c) == OutputPath(get_output_name(t, c), <<"m", "p", "3">>)

\* process after output_transcript returned Ok: the kept-audio copy, or Ok
AfterOutput ==
    IF Cfg.keep_audio
    THEN /\ trace' = Append(trace, Event("copy_audio", final_audio(title, Cfg)))
         /\ pc' = "keep_audio"
         /\ UNCHANGED <<result, exit_code, temp_dir>>
    ELSE /\ Finish(OkResult)
         /\ UNCHANGED trace

FormatsLeft_until_interrupted == idx <= Len(Cfg.formats) /\ ~shutdown

\* the loop ended one format early
FormatsLeft_but_last == idx < Len(Cfg.formats)

\* output_transcript's for loop has a format to handle
FormatsLeft == idx <= Len(Cfg.formats)

\* one iteration of output_transcript's loop, up to the prompt or the write
EmitFormat ==
    /\ pc = "emit"
    /\ IF ~FormatsLeft
       THEN /\ AfterOutput
            /\ UNCHANGED <<idx, stdout>>
       ELSE LET format == Cfg.formats[idx]
                content == Render(format, Unwrap(transcript))
                output_name == get_output_name(Unwrap(transcript).title, Cfg)
                output_path == OutputPath(output_name, extension(format))
                rendered == Append(trace, Event("render", extension(format)))
            IN  IF Cfg.stdout_mode
                THEN /\ stdout' = Append(stdout, content)
                     /\ trace' = rendered
                     /\ idx' = idx + 1
                     /\ UNCHANGED <<pc, result, exit_code, temp_dir>>
                ELSE /\ IF NeedsPrompt(output_path, Cfg, fs)
                        THEN /\ trace' = Append(rendered, Event("prompt", output_path))
                             /\ pc' = "prompt"
                        ELSE /\ trace' = rendered
                             /\ pc' = "write"
                     /\ UNCHANGED <<idx, stdout, result, exit_code, temp_dir>>
    /\ UNCHANGED <<fn_in, fn_out, args, fs0, dir_exists, config, shutdown, signals, at_cp1, at_cp2, title,
                   transcript, fs>>

PromptResponse_skips_file ==
    /\ pc = "prompt"
    /\ \E read \in {Ok(r) : r \in Responses} \cup {Err(Error("Io", NoArg))} :
         /\ trace' = Append(trace, Event(IF read.ok THEN "response" ELSE "read_failed",
                                         read.val))
         /\ IF Affirmative(read)
            THEN /\ pc' = "write"
                 /\ UNCHANGED idx
            ELSE /\ pc' = "emit"
                 /\ idx' = idx + 1
    /\ UNCHANGED <<fn_in, fn_out, args, fs0, dir_exists, config, shutdown, signals, at_cp1, at_cp2, title,
                   transcript, fs, stdout, result, exit_code, temp_dir>>

\* read_line on the overwrite prompt returns
PromptResponse ==
    /\ pc = "prompt"
    /\ \E read \in {Ok(r) : r \in Responses} \cup {Err(Error("Io", NoArg))} :
         /\ trace' = Append(trace, Event(IF read.ok THEN "response" ELSE "read_failed",
                                         read.val))
         /\ IF Affirmative(read)
            THEN /\ pc' = "write"
                 /\ UNCHANGED <<result, exit_code, temp_dir>>
            ELSE Finish(Error("UserAborted", NoArg))
    /\ UNCHANGED <<fn_in, fn_out, args, fs0, dir_exists, config, shutdown, signals, at_cp1, at_cp2, title,
                   transcript, idx, fs, stdout>>

\* std::fs::write of the rendered format returns
WriteReturn ==
    /\ pc = "write"
    /\ LET format == Cfg.formats[idx]
           output_path == OutputPath(get_output_name(Unwrap(transcript).title, Cfg),
                                     extension(format))
       IN  \E outcome \in {"ok", "open_failed", "write_failed"} :
             CASE outcome = "ok" ->
                    /\ fs' = WriteFile(fs, output_path, Render(format, Unwrap(transcript)))
                    /\ trace' = Append(trace, Event("write", output_path))
                    /\ idx' = idx + 1
                    /\ pc' = "emit"
                    /\ UNCHANGED <<result, exit_code, temp_dir>>
               [] outcome = "open_failed" ->
                    /\ Finish(Error("Io", NoArg))
                    /\ UNCHANGED <<fs, trace, idx>>
               [] outcome = "write_failed" ->
                    /\ fs' = WriteFile(fs, output_path, Truncated)
                    /\ Finish(Error("Io", NoArg))
                    /\ UNCHANGED <<trace, idx>>
    /\ UNCHANGED <<fn_in, fn_out, args, fs0, dir_exists, config, shutdown, signals, at_cp1, at_cp2, title,
                   transcript, stdout>>

\* std::fs::copy of the normalized audio into output_dir returns
KeepAudioReturn ==
    /\ pc = "keep_audio"
    /\ LET audio == final_audio(title, Cfg)
       IN  \E outcome \in {"ok", "open_failed", "write_failed"} :
             CASE outcome = "ok" ->
                    /\ fs' = WriteFile(fs, audio, [kind |-> "audio", of |-> title])
                    /\ Finish(OkResult)
               [] outcome = "open_failed" ->
                    /\ Finish(Error("Io", NoArg))
                    /\ UNCHANGED fs
               [] outcome = "write_failed" ->
                    /\ fs' = WriteFile(fs, audio, Truncated)
                    /\ Finish(Error("Io", NoArg))
    /\ UNCHANGED <<fn_in, fn_out, args, fs0, dir_exists, config, shutdown, signals, at_cp1, at_cp2, title,
                   transcript, idx, stdout, trace>>

Next ==
    \/ Run
    \/ CheckFfmpegReturn
    \/ ProcessStart
    \/ DownloadReturn
    \/ ConvertReturn
    \/ CopyInputReturn
    \/ Checkpoint1
    \/ TranscribeReturn
    \/ Checkpoint2
    \/ EmitFormat
    \/ PromptResponse
    \/ WriteReturn
    \/ KeepAudioReturn
    \/ Signal

Spec == Init /\ [][Next]_vars

\* ------------------------------------------------------------------ claims
Done == pc = "done"

EmitEvents == {"render", "prompt", "response", "read_failed", "write", "copy_audio"}

NothingEmitted ==
    /\ fs = fs0
    /\ stdout = <<>>
    /\ \A i \in 1..Len(trace) : trace[i].ev \notin EmitEvents

\* stage 1 had a collaborator call in flight
CollaboratorCalled == Called("download") \/ Called("convert")

\* stage 1 had a collaborator call or copy in flight
StageOneCalled == Called("download") \/ Called("convert") \/ Called("copy_input")

\* the responses the prompt takes as a yes: "y" or "Y" and the newline
YesResponses == {<<"y", "\n">>, <<"Y", "\n">>}

IsRefusal(e) ==
    \/ e.ev = "read_failed"
    \/ e.ev = "response" /\ e.arg \notin YesResponses

\* an overwrite prompt got a non-affirmative response, or its read failed
Refused == \E i \in 1..Len(trace) : IsRefusal(trace[i])

\* the path output_transcript writes format i to
Target(i) ==
    OutputPath(get_output_name(Unwrap(transcript).title, Cfg), extension(Cfg.formats[i]))

AudioTarget == OutputPath(get_output_name(title, Cfg), <<"m", "p", "3">>)

\* the files of output_dir that differ from before the run
Modified == {p \in DOMAIN fs : p \notin DOMAIN fs0 \/ fs[p] # fs0[p]}

\* C1: when the post-acquisition checkpoint is evaluated with the flag set, the
\* run ends with success, transcribe is never called and nothing is emitted
\* (no output file, no stdout text, no kept audio).
C1_PostAcquisitionCheckpoint ==
    at_cp1 = "set" =>
        /\ Done
        /\ result.kind = "Ok"
        /\ exit_code = 0
        /\ ~Called("transcribe")
        /\ transcript = None
        /\ NothingEmitted

C1_Witness ==
    /\ at_cp1 = "set"
    /\ Done
    /\ Called("download")
    /\ Called("convert")
    /\ Cfg.keep_audio
    /\ Len(Cfg.formats) >= 1

\* C2: when the post-transcription checkpoint is evaluated with the flag set,
\* the run ends with success and the Emit stage never starts: nothing is
\* rendered, printed, prompted for or written, and the audio is not copied
\* even when keep_audio is set.
C2_PostTranscriptionCheckpoint ==
    at_cp2 = "set" =>
        /\ Done
        /\ result.kind = "Ok"
        /\ exit_code = 0
        /\ Called("transcribe")
        /\ idx = 0
        /\ NothingEmitted

C2_Witness ==
    /\ at_cp2 = "set"
    /\ at_cp1 = "clear"
    /\ Done
    /\ Cfg.keep_audio
    /\ ~Cfg.stdout_mode
    /\ ~Cfg.overwrite_files
    /\ Len(Cfg.formats) >= 2
    /\ OutputPath(get_output_name(title, Cfg), extension(Cfg.formats[1])) \in DOMAIN fs0

\* C3 as stated: every run in which cancellation is requested before the
\* post-transcription checkpoint is evaluated ends with exit code 0, whatever
\* the call in flight returns.
C3_InterruptedNeverFails ==
    (Done /\ CollaboratorCalled /\ shutdown /\ at_cp2 # "clear") =>
        (exit_code = 0 /\ result.kind = "Ok")

\* C3 as amended: a run in which cancellation is requested before the
\* post-transcription checkpoint is evaluated ends with success exactly when a
\* checkpoint is evaluated after the request; when the call or copy in flight
\* returns an error first, the run ends with that error and exit code 1.
C3_InterruptedEndsAtCheckpoint ==
    (Done /\ StageOneCalled /\ shutdown /\ at_cp2 # "clear") =>
        IF at_cp1 = "set" \/ at_cp2 = "set"
        THEN exit_code = 0 /\ result.kind = "Ok"
        ELSE /\ exit_code = 1
             /\ result.kind \in {"DownloadFailed", "FfmpegError", "Io",
                                 "TranscriptionFailed"}
             /\ at_cp2 = "none"

C3_Witness ==
    /\ Done
    /\ shutdown
    /\ at_cp1 = "clear"
    /\ at_cp2 = "set"
    /\ exit_code = 0

\* C4: the flag starts false, changes only in a step of request_shutdown (a
\* signal delivery), changes only to true, and once true stays true.
C4_FlagMonotonic ==
    /\ shutdown = FALSE
    /\ [][/\ shutdown => shutdown'
          /\ shutdown' # shutdown => (shutdown' /\ signals' = signals + 1)]_vars

C4_Witness ==
    /\ shutdown
    /\ signals >= 2
    /\ at_cp1 = "clear"
    /\ at_cp2 = "set"

\* what a run that succeeds leaves in output_dir and on standard output
AllEmitted ==
    /\ Cfg.stdout_mode =>
         stdout = [i \in 1..Len(Cfg.formats) |->
                     Render(Cfg.formats[i], Unwrap(transcript))]
    /\ ~Cfg.stdout_mode =>
         /\ stdout = <<>>
         /\ \A i \in 1..Len(Cfg.formats) :
              /\ Target(i) \in DOMAIN fs
              /\ fs[Target(i)] = Render(Cfg.formats[i], Unwrap(transcript))
    /\ Cfg.keep_audio =>
         /\ AudioTarget \in DOMAIN fs
         /\ fs[AudioTarget].kind = "audio"

\* C5: a signal delivery changes the flag and nothing else (the call in
\* flight goes on), and once the post-transcription checkpoint has been
\* evaluated with the flag clear the run is no longer cancelled: it ends with
\* success only with every requested format emitted and the audio copied when
\* keep_audio is set, and otherwise with UserAborted or an I/O error.
C5_OnlyAtCheckpoints ==
    /\ [][shutdown' # shutdown =>
            UNCHANGED <<dir_exists, pc, config, at_cp1, at_cp2, title, transcript, idx, fs,
                        stdout, temp_dir, trace, result, exit_code>>]_vars
    /\ []((Done /\ at_cp2 = "clear") =>
            /\ at_cp1 = "clear"
            /\ exit_code = 0 => (result.kind = "Ok" /\ AllEmitted)
            /\ exit_code # 0 => result.kind \in {"UserAborted", "Io"})

C5_Witness ==
    /\ Done
    /\ at_cp2 = "clear"
    /\ shutdown
    /\ exit_code = 0
    /\ ~Cfg.stdout_mode
    /\ Cfg.keep_audio
    /\ Len(Cfg.formats) >= 2
    /\ Called("prompt")

\* C6 as stated: when the overwrite prompt for a file that existed before the
\* run is refused, the run ends with UserAborted and no file of output_dir has
\* been modified by the run.
C6_RefusalLeavesNoFileModified ==
    (Refused /\ Target(idx) \in DOMAIN fs0) =>
        (Done /\ result.kind = "UserAborted" /\ fs = fs0)

\* C6 as amended: when an overwrite prompt is refused the run ends with
\* UserAborted and nothing is written from the prompt on; the files the run
\* has modified are exactly the targets of the formats before the refused
\* one, each holding what was rendered for it.
C6_RefusalModifiesOnlyEarlierTargets ==
    Refused =>
        /\ Done
        /\ result.kind = "UserAborted"
        /\ ~Cfg.stdout_mode /\ ~Cfg.overwrite_files
        /\ Target(idx) \in DOMAIN fs
        /\ DOMAIN fs0 \subseteq DOMAIN fs
        /\ Modified \subseteq {Target(j) : j \in 1..(idx - 1)}
        /\ \A j \in 1..(idx - 1) : fs[Target(j)].kind \in OutputFormats
        /\ idx = 1 => fs = fs0

C6_Witness ==
    /\ Refused
    /\ idx = 2
    /\ Modified # {}
    /\ Target(1) \notin DOMAIN fs0

\* C7: after a refused overwrite prompt nothing more happens: the refusal is
\* the last event of the run, so the file prompted for is not written after
\* it, no later format is rendered or written, no further prompt is shown, the
\* audio is not copied, and the run ends with UserAborted and exit code 1.
C7_UserAbortedIsHardStop ==
    \A i \in 1..Len(trace) :
        IsRefusal(trace[i]) =>
            /\ i = Len(trace)
            /\ trace[i - 1].ev = "prompt"
            /\ Done
            /\ exit_code = 1
            /\ result.kind = "UserAborted"
            /\ ~Called("copy_audio")
            /\ Cardinality({j \in 1..Len(trace) : trace[j].ev = "render"}) = idx
            /\ Cardinality({j \in 1..Len(trace) : trace[j].ev = "write"}) = idx - 1

C7_Witness ==
    /\ Refused
    /\ Done
    /\ Cfg.keep_audio
    /\ idx = 1
    /\ Len(Cfg.formats) >= 2
    /\ Target(2) \in DOMAIN fs0

\* C8 as stated: in stdout mode with a format to render, no file of output_dir
\* is created or modified, whatever the other flags are.
C8_StdoutModeWritesNoFile ==
    (IsSome(config) /\ Cfg.stdout_mode /\ Cfg.formats # <<>>) => fs = fs0

\* C9 as stated: every path the Emit stage prompts for, writes or copies the
\* audio to has the base name get_final_name gives: custom_name when present
\* and non-empty, the title otherwise.
C9_BaseNameFallsBackToTitle ==
    \A i \in 1..Len(trace) :
        (trace[i].ev \in {"prompt", "write", "copy_audio"} /\ Cfg.formats # <<>>) =>
            \E e \in {extension(f) : f \in OutputFormats} \cup {<<"m", "p", "3">>} :
                trace[i].arg = OutputPath(get_final_name(title, Cfg.custom_name), e)

\* C10 as stated: a Config from_args returns holds at least one format, and
\* exactly one when stdout_mode is true.
C10_FormatsInvariant ==
    IsSome(config) =>
        /\ Len(Cfg.formats) >= 1
        /\ Cfg.stdout_mode => Len(Cfg.formats) = 1

\* ------------------------------------------ functions called on their own
\* the variables of the run, which a call of one function leaves alone
run_vars ==
    <<args, fs0, dir_exists, pc, config, shutdown, signals, at_cp1, at_cp2, title,
      transcript, idx, fs, stdout, temp_dir, trace, result, exit_code>>

\* no run is under way: the function is called as the unit tests call it
NoRun ==
    /\ args = <<>>
    /\ fs0 = <<>>
    /\ dir_exists = FALSE
    /\ pc = "call"
    /\ config = None
    /\ shutdown = FALSE
    /\ signals = 0
    /\ at_cp1 = "none"
    /\ at_cp2 = "none"
    /\ title = <<>>
    /\ transcript = None
    /\ idx = 0
    /\ fs = <<>>
    /\ stdout = <<>>
    /\ temp_dir = FALSE
    /\ trace = <<>>
    /\ result = NoError
    /\ exit_code = -1

Returned == IsSome(fn_out)
Ret == Unwrap(fn_out)

\* ----------------------------------------------------- parse_formats alone
MaxTokens == 3

\* a token of a format specification, with the format its text names
\* ("blank" for an empty or all-whitespace token, "invalid" for any other)
Token(text, names) == [text |-> text, names |-> names]

UpperChar(c) ==
    CASE c = "t" -> "T" [] c = "x" -> "X" [] c = "j" -> "J" [] c = "s" -> "S"
      [] c = "o" -> "O" [] c = "n" -> "N" [] c = "r" -> "R" [] c = "v" -> "V"

EitherCase(c) == {c, UpperChar(c)}

\* every spelling of a format name, in any letter case
Spellings(f) ==
    CASE f = "Txt" -> {<<a, b, c>> : a \in EitherCase("t"), b \in EitherCase("x"),
                                    c \in EitherCase("t")}
      [] f = "Srt" -> {<<a, b, c>> : a \in EitherCase("s"), b \in EitherCase("r"),
                                    c \in EitherCase("t")}
      [] f = "Vtt" -> {<<a, b, c>> : a \in EitherCase("v"), b \in EitherCase("t"),
                                    c \in EitherCase("t")}
      [] f = "Json" -> {<<a, b, c, d>> : a \in EitherCase("j"), b \in EitherCase("s"),
                                        c \in EitherCase("o"), d \in EitherCase("n")}

SpelledTokens == UNION {{Token(w, f) : w \in Spellings(f)} : f \in OutputFormats}

\* non-empty trimmed tokens that spell no format
OtherTokens ==
    {Token(w, "invalid") :
        w \in {<<"x", "y">>, <<"t", "x">>, <<"t", "x", "t", "x">>, <<"t", "e", "x", "t">>,
               <<"T", "X">>, <<"j", "s", "o">>, <<"s", "r", "t", "v">>, <<"m", "p", "3">>,
               <<"t", ".", "x", "t">>, <<"t", " ", "x", "t">>, <<".", "t", "x", "t">>,
               <<"v", "t", "t", "t">>}}

\* the tokens the longer specifications are built from
ListTokens ==
    {Token(<<"t", "x", "t">>, "Txt"), Token(<<"J", "S", "O", "N">>, "Json"),
     Token(<<" ", "s", "r", "t", " ">>, "Srt"), Token(<<>>, "blank"),
     Token(<<" ">>, "blank"), Token(<<"x", "y">>, "invalid"),
     Token(<<"t", "x">>, "invalid"), Token(<<" ", "x">>, "invalid")}

TokenLists ==
    {<<t>> : t \in SpelledTokens \cup OtherTokens}
        \cup UNION {[1..n -> ListTokens] : n \in 1..MaxTokens}

\* the tokens written one after the other with a comma between them
RECURSIVE JoinComma(_)
JoinComma(toks) ==
    IF toks = <<>> THEN <<>>
    ELSE IF Len(toks) = 1 THEN toks[1].text
    ELSE toks[1].text \o <<",">> \o JoinComma(Tail(toks))

InitParse ==
    /\ fn_in \in {[tokens |-> l, format_str |-> JoinComma(l), stdout_mode |-> b] :
                    l \in TokenLists, b \in BOOLEAN}
    /\ fn_out = None
    /\ NoRun

CallParseFormats ==
    /\ fn_out = None
    /\ fn_out' = Some(parse_formats(fn_in.format_str, fn_in.stdout_mode))
    /\ UNCHANGED <<fn_in, run_vars>>

NextParse == CallParseFormats

SpecParse == InitParse /\ [][NextParse]_vars

\* the formats a list of tokens names, in order
RECURSIVE Named(_)
Named(toks) ==
    IF toks = <<>> THEN <<>>
    ELSE IF Head(toks).names \in OutputFormats
         THEN <<Head(toks).names>> \o Named(Tail(toks))
         ELSE Named(Tail(toks))

AllValid(toks) == \A i \in 1..Len(toks) : toks[i].names # "invalid"

\* C11: a specification whose tokens name two or more valid formats, repeats
\* included, and nothing invalid fails with MultipleFormatsWithStdout in stdout
\* mode and succeeds in file mode; one that names exactly one valid format
\* succeeds in both modes.
C11_StdoutAllowsOneFormat ==
    (Returned /\ AllValid(fn_in.tokens)) =>
        /\ (Len(Named(fn_in.tokens)) >= 2 /\ fn_in.stdout_mode) =>
               ~Ret.ok /\ Ret.err.kind = "MultipleFormatsWithStdout"
        /\ (Len(Named(fn_in.tokens)) >= 2 /\ ~fn_in.stdout_mode) => Ret.ok
        /\ Len(Named(fn_in.tokens)) = 1 => Ret.ok

\* the same format twice, in stdout mode
C11_Witness ==
    /\ Returned
    /\ fn_in.stdout_mode
    /\ Named(fn_in.tokens) = <<"Txt", "Txt">>
    /\ AllValid(fn_in.tokens)
    /\ ~Ret.ok

\* C12: a single token spelling txt, json, srt or vtt in any letter case parses
\* to the one corresponding OutputFormat; any other non-empty trimmed token
\* fails with InvalidFormat.
C12_TokensParseCaseInsensitively ==
    (Returned /\ Len(fn_in.tokens) = 1) =>
        LET t == fn_in.tokens[1]
        IN  /\ t \in SpelledTokens => Ret.ok /\ Ret.val = <<t.names>>
            /\ t \in OtherTokens => ~Ret.ok /\ Ret.err.kind = "InvalidFormat"

\* a mixed-case spelling parsed
C12_Witness ==
    /\ Returned
    /\ fn_in.tokens = <<Token(<<"j", "S", "o", "N">>, "Json")>>
    /\ Ret.ok
    /\ Ret.val = <<"Json">>

\* ---------------------------------------------------- validate_model alone
\* model names as the user may give them: the catalog's, and near misses
NameStems == {"tiny", "base", "small", "medium", "large", "Large", "huge", ""}
NameEndings == {"", ".en", ".EN", "-v1", "-v2", "-v3", " "}
ModelNames == {stem \o ending : stem \in NameStems, ending \in NameEndings}

InitModel ==
    /\ fn_in \in {[model |-> m] : m \in ModelNames}
    /\ fn_out = None
    /\ NoRun

CallValidateModel ==
    /\ fn_out = None
    /\ fn_out' = Some(validate_model(fn_in.model))
    /\ UNCHANGED <<fn_in, run_vars>>

NextModel == CallValidateModel

SpecModel == InitModel /\ [][NextModel]_vars

\* C13: validate_model maps "large" to "large-v3", returns each of the ten
\* other catalog names unchanged, and fails with InvalidModel carrying the name
\* as given for every name outside the catalog.
C13_LargeAliasOnly ==
    /\ Cardinality(AVAILABLE_MODELS) = 11
    /\ Returned =>
        /\ fn_in.model = "large" => Ret.ok /\ Ret.val = "large-v3"
        /\ fn_in.model \in AVAILABLE_MODELS \ {"large"} =>
               Ret.ok /\ Ret.val = fn_in.model
        /\ fn_in.model \notin AVAILABLE_MODELS =>
               /\ ~Ret.ok
               /\ Ret.err.kind = "InvalidModel"
               /\ Ret.err.arg = Some(fn_in.model)

\* the alias resolved
C13_Witness ==
    /\ Returned
    /\ fn_in.model = "large"
    /\ Ret.ok
    /\ Ret.val = "large-v3"

\* ----------------------------------------------- strip_txt_extension alone
MaxEndings == 2

\* names as --name may give them: a stem followed by up to MaxEndings endings
NameStemsForStrip ==
    {<<>>, <<"a">>, <<"a", ".">>, <<"t", "x", "t">>, <<"a", ".", "t", "x">>,
     <<".", "t", "x", "t", "a">>, <<"a", "_", "b">>, <<"A", "-", "1">>}

Endings ==
    {DotTxt, <<".", "T", "X", "T">>, <<".", "j", "s", "o", "n">>, <<"t", "x", "t">>, <<".">>}

RECURSIVE Concat(_)
Concat(parts) == IF parts = <<>> THEN <<>> ELSE Head(parts) \o Concat(Tail(parts))

StripNames ==
    {stem \o Concat(e) :
        stem \in NameStemsForStrip, e \in UNION {[1..n -> Endings] : n \in 0..MaxEndings}}

InitStrip ==
    /\ fn_in \in {[name |-> n] : n \in StripNames}
    /\ fn_out = None
    /\ NoRun

\* strip_txt_extension(name)
CallStripTxtExtension ==
    /\ fn_out = None
    /\ fn_out' = Some([once |-> strip_txt_extension(fn_in.name), twice |-> None])
    /\ UNCHANGED <<fn_in, run_vars>>

\* strip_txt_extension applied to what it returned
CallStripTxtExtensionAgain ==
    /\ Returned
    /\ Ret.twice = None
    /\ fn_out' = Some([once |-> Ret.once, twice |-> Some(strip_txt_extension(Ret.once))])
    /\ UNCHANGED <<fn_in, run_vars>>

NextStrip == CallStripTxtExtension \/ CallStripTxtExtensionAgain

SpecStrip == InitStrip /\ [][NextStrip]_vars

StrippedTwice == Returned /\ IsSome(Ret.twice)

EndsInTxtTxt(x) ==
    /\ Len(x) >= 8
    /\ SubSeq(x, Len(x) - 7, Len(x)) = <<".", "t", "x", "t", ".", "t", "x", "t">>

TicksPerSecond == 2000

\* the upper end of the range the timestamp property tests draw from
MaxSeconds == 100000

Digits == <<"0", "1", "2", "3", "4", "5", "6", "7", "8", "9">>

\* Display for u64
RECURSIVE Decimal(_)
Decimal(n) ==
    IF n < 10 THEN <<Digits[n + 1]>> ELSE Decimal(n \div 10) \o <<Digits[(n % 10) + 1]>>

\* the {:0width} format flag: zero-padded on the left, never truncated
RECURSIVE PadZero(_, _)
PadZero(s, width) == IF Len(s) >= width THEN s ELSE PadZero(<<"0">> \o s, width)

\* f64::floor as u64, of a time that is not negative
Floor(seconds) == seconds \div TicksPerSecond

\* (seconds.fract() * 1000.0).round() as u64: nearest, halves away from zero
RoundedMillis(seconds) ==
    (2 * 1000 * (seconds % TicksPerSecond) + TicksPerSecond) \div (2 * TicksPerSecond)

Min(a, b) == IF a <= b THEN a ELSE b

Clock(seconds, sep, milliseconds) ==
    LET total_seconds == Floor(seconds)
        hours == total_seconds \div 3600
        minutes == (total_seconds % 3600) \div 60
        secs == total_seconds % 60
    IN  PadZero(Decimal(hours), 2) \o <<":">> \o PadZero(Decimal(minutes), 2) \o <<":">>
            \o PadZero(Decimal(secs), 2) \o <<sep>> \o PadZero(Decimal(milliseconds), 3)

\* srt::format_timestamp without the clamp of the milliseconds
srt_format_timestamp_unclamped(seconds) == Clock(seconds, ",", RoundedMillis(seconds))

\* srt::format_timestamp
srt_format_timestamp(seconds) == Clock(seconds, ",", Min(RoundedMillis(seconds), 999))

\* vtt::format_timestamp
vtt_format_timestamp(seconds) == Clock(seconds, ".", Min(RoundedMillis(seconds), 999))

\* -------------------------------------------------- format_timestamp alone
\* whole seconds around the minute, hour and range boundaries
WholeSeconds == {0, 1, 59, 60, 3599, 3600, 3661, 35999, 36000, 86399, MaxSeconds - 1}

InitTimestamp ==
    /\ fn_in \in {[seconds |-> w * TicksPerSecond + f] :
                    w \in WholeSeconds, f \in 0..(TicksPerSecond - 1)}
    /\ fn_out = None
    /\ NoRun

CallSrtFormatTimestamp ==
    /\ fn_out = None
    /\ fn_out' = Some([format |-> "Srt", text |-> srt_format_timestamp(fn_in.seconds)])
    /\ UNCHANGED <<fn_in, run_vars>>

CallVttFormatTimestamp ==
    /\ fn_out = None
    /\ fn_out' = Some([format |-> "Vtt", text |-> vtt_format_timestamp(fn_in.seconds)])
    /\ UNCHANGED <<fn_in, run_vars>>

NextTimestamp == CallSrtFormatTimestamp \/ CallVttFormatTimestamp

SpecTimestamp == InitTimestamp /\ [][NextTimestamp]_vars

IsDigit(c) == \E d \in 1..10 : Digits[d] = c
DigitValue(c) == (CHOOSE d \in 1..10 : Digits[d] = c) - 1

\* the number the digits of text at positions from..to spell
RECURSIVE Number(_, _, _)
Number(text, from, to) ==
    IF to < from THEN 0 ELSE 10 * Number(text, from, to - 1) + DigitValue(text[to])

\* C15: for a time in [0, 100000) seconds, the SRT and VTT timestamps have the
\* shape HH:MM:SS{sep}mmm with minutes < 60, seconds < 60 and milliseconds
\* < 1000; hours, minutes and seconds spell the floor of the input, the
\* milliseconds are the fraction rounded to the nearest millisecond and clamped
\* to 999 without carrying; SRT uses only the comma and VTT only the dot.
C15_TimestampShape ==
    Returned =>
        LET text == Ret.text
            sep == IF Ret.format = "Srt" THEN "," ELSE "."
            other == IF Ret.format = "Srt" THEN "." ELSE ","
            exact == 1000 * (fn_in.seconds % TicksPerSecond)
        IN  /\ fn_in.seconds < MaxSeconds * TicksPerSecond
            /\ Len(text) = 12
            /\ \A i \in {1, 2, 4, 5, 7, 8, 10, 11, 12} : IsDigit(text[i])
            /\ text[3] = ":" /\ text[6] = ":" /\ text[9] = sep
            /\ \A i \in 1..Len(text) : text[i] # other
            /\ LET hh == Number(text, 1, 2)
                   mm == Number(text, 4, 5)
                   ss == Number(text, 7, 8)
                   ms == Number(text, 10, 12)
               IN  /\ mm < 60 /\ ss < 60 /\ ms < 1000
                   /\ hh * 3600 + mm * 60 + ss = fn_in.seconds \div TicksPerSecond
                   /\ 2 * (exact - ms * TicksPerSecond) >= -TicksPerSecond
                   /\ ms < 999 => 2 * (exact - ms * TicksPerSecond) < TicksPerSecond

\* a fraction that rounds to 1000 milliseconds is written as 999, no carry
C15_Witness ==
    /\ Returned
    /\ Ret.format = "Srt"
    /\ fn_in.seconds = 3600 * TicksPerSecond - 1
    /\ Ret.text = <<"0", "0", ":", "5", "9", ":", "5", "9", ",", "9", "9", "9">>

\* ------------------------------------------------------- the run, continued
ConfigErrors == {"InvalidFormat", "MultipleFormatsWithStdout", "InvalidModel"}

\* C16: when from_args fails with InvalidFormat, MultipleFormatsWithStdout or
\* InvalidModel, the run ends there: the ffmpeg check, acquisition, conversion
\* and transcription are never invoked, no temporary directory exists, and
\* output_dir and its files are as they were before the run.
C16_ConfigErrorsFailFast ==
    /\ [](result.kind \in ConfigErrors =>
            /\ Done
            /\ config = None
            /\ trace = <<>>
            /\ ~temp_dir
            /\ fs = fs0)
    /\ [][result'.kind \in ConfigErrors /\ result.kind \notin ConfigErrors =>
            /\ pc = "run"
            /\ dir_exists' = dir_exists
            /\ fs' = fs]_vars

\* an unknown model with a valid format and no output directory yet
C16_Witness ==
    /\ Done
    /\ result.kind = "InvalidModel"
    /\ parse_formats(args.format, args.stdout).ok
    /\ ~dir_exists
    /\ trace = <<>>

\* the validation, collaborator, I/O and user-abort failures of src/error.rs
FailureKinds ==
    {"InvalidFormat", "MultipleFormatsWithStdout", "InvalidModel", "FileNotFound",
     "InvalidUrl", "DownloadFailed", "TranscriptionFailed", "FfmpegError",
     "FfmpegNotFound", "UserAborted", "Io", "Json"}

\* C17: the process exits with 0 when run succeeds and with 1 when it ends in
\* any validation, collaborator, I/O or user-abort failure, never the other
\* way round; with --list-models it exits with 0 whatever the other arguments
\* are; there is no exit code before the run has ended.
C17_ExitCodes ==
    /\ ~Done => exit_code = -1
    /\ Done =>
        /\ exit_code \in {0, 1}
        /\ result.kind \in FailureKinds \cup {"Ok"}
        /\ result.kind = "Ok" <=> exit_code = 0
        /\ result.kind \in FailureKinds <=> exit_code = 1
        /\ args.list_models => exit_code = 0

\* --list-models with a model and a format that from_args would reject
C17_Witness ==
    /\ Done
    /\ args.list_models
    /\ args.model = "huge"
    /\ ~parse_formats(args.format, args.stdout).ok
    /\ exit_code = 0

\* C18: when input_path is not a URL and names no existing file, stage 1 fails
\* with FileNotFound carrying the path: the run can end in no other way once
\* ffmpeg was found and the temporary directory made; download, conversion,
\* copy and transcription are never invoked and nothing is emitted.
C18_MissingInputFile ==
    (IsSome(config) /\ Cfg.input_path \notin LocalFiles \cup {Url}) =>
        /\ ~Called("download") /\ ~Called("convert") /\ ~Called("copy_input")
        /\ ~Called("transcribe")
        /\ NothingEmitted
        /\ fs = fs0
        /\ pc \in {"check_ffmpeg", "process", "done"}
        /\ Done => result.kind \in {"FfmpegNotFound", "Io", "FileNotFound"}
        /\ result.kind = "FileNotFound" => result.arg = Some(Cfg.input_path)

\* the run of a missing file, ended by stage 1
C18_Witness ==
    /\ Done
    /\ IsSome(config)
    /\ Cfg.input_path = GoneWav
    /\ result.kind = "FileNotFound"
    /\ result.arg = Some(GoneWav)
    /\ trace = <<Event("check_ffmpeg", <<>>)>>

\* ---------------------------------------------------- renderers, continued
\* slice::join
RECURSIVE JoinWith(_, _)
JoinWith(parts, sep) ==
    IF parts = <<>> THEN <<>>
    ELSE IF Len(parts) = 1 THEN parts[1]
    ELSE parts[1] \o sep \o JoinWith(Tail(parts), sep)

\* str::contains
Contains(s, sub) ==
    \E i \in 1..(Len(s) - Len(sub) + 1) : SubSeq(s, i, i + Len(sub) - 1) = sub

Arrow == <<" ", "-", "-", ">", " ">>
BlankLine == <<"\n", "\n">>

\* the {:.2} format of a time: two decimals, nearest, halves to even
Fixed2(seconds) ==
    LET num == 100 * seconds
        q == num \div TicksPerSecond
        r == num % TicksPerSecond
        hundredths == IF 2 * r > TicksPerSecond \/ (2 * r = TicksPerSecond /\ q % 2 = 1)
                      THEN q + 1 ELSE q
    IN  Decimal(hundredths \div 100) \o <<".">> \o PadZero(Decimal(hundredths % 100), 2)

\* txt::format_segment
txt_format_segment(segment) ==
    <<"[">> \o Fixed2(segment.start) \o <<" ", "-", " ">> \o Fixed2(segment.end) \o <<"]", ":", " ">>
        \o segment.text

\* txt::format_transcript
txt_format_transcript(segments) ==
    JoinWith([i \in 1..Len(segments) |-> txt_format_segment(segments[i])], <<"\n">>)

\* json::to_json_segments
to_json_segments(segments) ==
    [i \in 1..Len(segments) |->
        [id |-> i, start |-> segments[i].start, end |-> segments[i].end,
         text |-> segments[i].text]]

\* json::to_json_metadata
to_json_metadata(metadata) ==
    [title |-> metadata.title, source |-> metadata.source, duration |-> metadata.duration,
     model |-> metadata.model,
     language |-> IF IsSome(metadata.language) THEN Unwrap(metadata.language)
                  ELSE <<"e", "n">>]

\* json::format_transcript: the JsonOutput that serde_json writes out
json_format_transcript(segments, metadata) ==
    [transcript |-> to_json_segments(segments), metadata |-> to_json_metadata(metadata)]

\* srt::format_segment
srt_format_segment(segment, index) ==
    Decimal(index) \o <<"\n">> \o srt_format_timestamp(segment.start) \o Arrow
        \o srt_format_timestamp(segment.end) \o <<"\n">> \o trim(segment.text)

\* srt::format_transcript
srt_format_transcript(segments) ==
    JoinWith([i \in 1..Len(segments) |-> srt_format_segment(segments[i], i)], BlankLine)

\* vtt::format_segment
vtt_format_segment(segment) ==
    vtt_format_timestamp(segment.start) \o Arrow \o vtt_format_timestamp(segment.end)
        \o <<"\n">> \o trim(segment.text)

Unknown == <<"u", "n", "k", "n", "o", "w", "n">>
NoteTitle == <<"N", "O", "T", "E", " ", "T", "i", "t", "l", "e", "\n">>
NoteSource == <<"N", "O", "T", "E", " ", "S", "o", "u", "r", "c", "e", "\n">>
NoteDuration == <<"N", "O", "T", "E", " ", "D", "u", "r", "a", "t", "i", "o", "n", "\n">>
NoteLanguage == <<"N", "O", "T", "E", " ", "L", "a", "n", "g", "u", "a", "g", "e", "\n">>
NoteModel == <<"N", "O", "T", "E", " ", "M", "o", "d", "e", "l", "\n">>
WebVtt == <<"W", "E", "B", "V", "T", "T">>

\* vtt::format_metadata
vtt_format_metadata(metadata) ==
    JoinWith(<<NoteTitle \o metadata.title,
               NoteSource \o metadata.source,
               NoteDuration \o (IF IsSome(metadata.duration)
                                THEN vtt_format_timestamp(Unwrap(metadata.duration))
                                ELSE Unknown),
               NoteLanguage \o (IF IsSome(metadata.language)
                                THEN Unwrap(metadata.language) ELSE Unknown),
               NoteModel \o metadata.model>>, BlankLine)

\* vtt::format_transcript
vtt_format_transcript(segments, metadata) ==
    JoinWith(<<WebVtt, vtt_format_metadata(metadata)>>
                \o [i \in 1..Len(segments) |-> vtt_format_segment(segments[i])], BlankLine)

\* Transcript::to_txt, to_json, to_srt, to_vtt
to_txt(t) == txt_format_transcript(t.segments)
to_json(t) == json_format_transcript(t.segments, t.metadata)
to_srt(t) == srt_format_transcript(t.segments)
to_vtt(t) == vtt_format_transcript(t.segments, t.metadata)

\* ---------------------------------------------------- the renderers alone
MaxSegments == 2

\* segment texts as whisper returns them, with and without whitespace around
SegmentTexts == {<<"h", "i">>, <<" ", "h", "i">>, <<"h", "i", " ", "\n">>, <<" ", "a", " ", "b", " ">>, <<" ">>}

\* start and end of a segment, in ticks
Spans == {<<0, 3 * TicksPerSecond>>, <<3 * TicksPerSecond, 7 * TicksPerSecond + 1>>}

Segments == {[start |-> sp[1], end |-> sp[2], text |-> tx] : sp \in Spans, tx \in SegmentTexts}

Metadatas ==
    [title : {<<"c">>, <<"a", " ", "-", "-", ">", " ", "b">>},
     source : {<<"c", ".", "m", "p", "3">>},
     duration : {None, Some(7 * TicksPerSecond + 1)},
     model : {<<"t", "i", "n", "y">>},
     language : {None, Some(<<"s", "v">>)}]

Transcripts ==
    [segments : UNION {[1..n -> Segments] : n \in 0..MaxSegments}, metadata : Metadatas]

InitRender ==
    /\ fn_in \in Transcripts
    /\ fn_out = None
    /\ NoRun

Rendered(format, out) == Some([format |-> format, out |-> out])

CallToTxt ==
    /\ fn_out = None
    /\ fn_out' = Rendered("Txt", to_txt(fn_in))
    /\ UNCHANGED <<fn_in, run_vars>>

CallToJson ==
    /\ fn_out = None
    /\ fn_out' = Rendered("Json", to_json(fn_in))
    /\ UNCHANGED <<fn_in, run_vars>>

CallToSrt ==
    /\ fn_out = None
    /\ fn_out' = Rendered("Srt", to_srt(fn_in))
    /\ UNCHANGED <<fn_in, run_vars>>

CallToVtt ==
    /\ fn_out = None
    /\ fn_out' = Rendered("Vtt", to_vtt(fn_in))
    /\ UNCHANGED <<fn_in, run_vars>>

NextRender == CallToTxt \/ CallToJson \/ CallToSrt \/ CallToVtt

SpecRender == InitRender /\ [][NextRender]_vars

\* the transcript with the text of every segment trimmed
TrimmedTranscript(t) ==
    [segments |-> [i \in 1..Len(t.segments) |->
                      [start |-> t.segments[i].start, end |-> t.segments[i].end,
                       text |-> trim(t.segments[i].text)]],
     metadata |-> t.metadata]

\* C19 as stated: every renderer (txt, json, srt, vtt) emits the text of each
\* segment trimmed of leading and trailing whitespace, so a rendering is the
\* rendering of the transcript whose texts are already trimmed.
C19_RenderersTrimText ==
    Returned =>
        /\ Ret.format = "Txt" => Ret.out = to_txt(TrimmedTranscript(fn_in))
        /\ Ret.format = "Json" => Ret.out = to_json(TrimmedTranscript(fn_in))
        /\ Ret.format = "Srt" => Ret.out = to_srt(TrimmedTranscript(fn_in))
        /\ Ret.format = "Vtt" => Ret.out = to_vtt(TrimmedTranscript(fn_in))

NoSegments == Returned /\ fn_in.segments = <<>>

\* the WEBVTT header followed by the five metadata notes
HeaderAndNotes(out, m) ==
    /\ starts_with(out, WebVtt \o BlankLine \o NoteTitle \o m.title \o BlankLine \o NoteSource)
    /\ Contains(out, BlankLine \o NoteDuration)
    /\ Contains(out, BlankLine \o NoteLanguage)
    /\ ends_with(out, BlankLine \o NoteModel \o m.model)

\* C20 as stated: for zero segments and any metadata, Txt and Srt render the
\* empty string, Vtt renders the header and the metadata notes with no " --> "
\* in it, and Json has an empty transcript array.
C20_EmptyTranscript ==
    NoSegments =>
        /\ Ret.format \in {"Txt", "Srt"} => Ret.out = <<>>
        /\ Ret.format = "Vtt" =>
               HeaderAndNotes(Ret.out, fn_in.metadata) /\ ~Contains(Ret.out, Arrow)
        /\ Ret.format = "Json" => Ret.out.transcript = <<>>

\* ------------------------------------------------------ the run, concluded
\* process is between the start of stage 1 and its return
InProcess ==
    pc \in {"download", "convert", "copy_input", "checkpoint1", "transcribe",
            "checkpoint2", "emit", "prompt", "write", "keep_audio"}

\* C21: the temporary working directory exists from the start of stage 1 until
\* process returns, and it is gone when the run has ended, whichever way:
\* success, quiet cancellation at a checkpoint, a stage error or UserAborted.
C21_TempDirLifetime ==
    /\ InProcess => temp_dir
    /\ ~InProcess => ~temp_dir
    /\ Done => ~temp_dir

\* a run ended by a refused overwrite, after stage 1 and stage 2 used temp_dir
C21_Witness ==
    /\ Done
    /\ result.kind = "UserAborted"
    /\ Called("convert")
    /\ Called("transcribe")
    /\ ~temp_dir

\* C22 as stated: at each of the transitions AcquiringAudio to Converting,
\* Converting to Transcribing and Transcribing to Emitting, a cancellation
\* requested before the transition keeps the next stage from starting; for a
\* URL input a request made during the download prevents the conversion call.
C22_CancelledBetweenAllStages ==
    [][shutdown =>
          /\ ~(pc = "download" /\ pc' = "convert")
          /\ ~(pc = "checkpoint1" /\ pc' = "transcribe")
          /\ ~(pc = "checkpoint2" /\ pc' = "emit")]_vars

\* C22: cancellation is observed at two checkpoints, after stage 1 (download
\* and conversion, which run back to back) and after transcription: a
\* cancellation requested before a checkpoint is evaluated keeps transcription,
\* respectively emission, from starting, and once requested during stage 1 no
\* transcription is ever called; the download itself is followed by the
\* conversion call whether or not cancellation was requested meanwhile.
C22_CancelledAtTwoCheckpoints ==
    /\ [][shutdown =>
            /\ ~(pc = "checkpoint1" /\ pc' = "transcribe")
            /\ ~(pc = "checkpoint2" /\ pc' = "emit")]_vars
    /\ [][(pc = "download" /\ pc' # "download") =>
            \/ pc' = "convert"
            \/ pc' = "done" /\ result'.kind = "DownloadFailed"]_vars
    /\ []((shutdown /\ pc \in {"download", "convert", "copy_input", "checkpoint1"}) =>
            ~Called("transcribe"))
    /\ []((Called("transcribe") => at_cp1 = "clear")
            /\ (pc \in {"emit", "prompt", "write", "keep_audio"} => at_cp2 = "clear"))

\* a URL run cancelled during stage 1: converted, then stopped at checkpoint 1
C22_Witness ==
    /\ Done
    /\ shutdown
    /\ at_cp1 = "set"
    /\ trace = <<Event("check_ffmpeg", <<>>), Event("download", Url), Event("convert", Url)>>
    /\ result.kind = "Ok"

\* the input names an existing local file
LocalInput == IsSome(config) /\ Cfg.input_path \in LocalFiles

\* the path ends in .mp3 after at least one other character
EndsInDotMp3(p) == Len(p) > 4 /\ SubSeq(p, Len(p) - 3, Len(p)) = <<".", "m", "p", "3">>

\* C23: for an existing local input, conversion is called if and only if the
\* file has no .mp3 extension; a .mp3 input is copied into the working area
\* and never converted, nothing is downloaded, and in both cases the title is
\* the file stem, or "audio" when the path has no stem.
C23_Mp3CopiedOthersConverted ==
    LocalInput =>
        /\ ~Called("download")
        /\ Called("convert") => ~EndsInDotMp3(Cfg.input_path)
        /\ Called("copy_input") => EndsInDotMp3(Cfg.input_path)
        /\ (InProcess \/ Called("transcribe")) =>
              /\ Called("convert") <=> ~EndsInDotMp3(Cfg.input_path)
              /\ Called("copy_input") <=> EndsInDotMp3(Cfg.input_path)
              /\ title = IF IsSome(file_stem(Cfg.input_path))
                         THEN Unwrap(file_stem(Cfg.input_path))
                         ELSE <<"a", "u", "d", "i", "o">>
              /\ \A i \in 1..Len(trace) :
                    trace[i].ev \in {"convert", "copy_input"} => trace[i].arg = Cfg.input_path

\* an .mp3 input copied and transcribed under its stem
C23_Witness ==
    /\ LocalInput
    /\ Cfg.input_path = ClipMp3
    /\ Called("copy_input")
    /\ ~Called("convert")
    /\ Called("transcribe")
    /\ title = <<"c">>

IsRender(e) == e.ev = "render"
IsWrite(e) == e.ev = "write"

Renders == SelectSeq(trace, IsRender)
Writes == SelectSeq(trace, IsWrite)

FileMode == IsSome(config) /\ ~Cfg.stdout_mode

\* the Emit stage ran to its end without an error
EmitSucceeded == Done /\ result.kind = "Ok" /\ at_cp2 = "clear"

IsCopyAudio(e) == e.ev = "copy_audio"
Copies == SelectSeq(trace, IsCopyAudio)

\* the base name of a path that ends in a dot and a three-letter extension
BaseOf(path) == SubSeq(path, 1, Len(path) - 4)

\* C25: the normalized audio is copied only when keep_audio is set and only
\* after every requested text output has been written (printed, in stdout
\* mode): the copy is the last thing the run does, at most once, to
\* {base_name}.mp3 with the base name of the text outputs; when emission
\* failed or was aborted there is no copy and the .mp3 target is untouched.
C25_AudioKeptAfterOutputs ==
    IsSome(config) =>
        /\ Len(Copies) <= 1
        /\ Called("copy_audio") =>
              /\ Cfg.keep_audio
              /\ IsCopyAudio(trace[Len(trace)])
              /\ Len(Renders) = Len(Cfg.formats)
              /\ ~Cfg.stdout_mode => Len(Writes) = Len(Cfg.formats)
              /\ ends_with(Copies[1].arg, <<".", "m", "p", "3">>)
              /\ \A i \in 1..Len(Writes) :
                    Writes[i].arg =
                        OutputPath(BaseOf(Copies[1].arg), extension(Cfg.formats[i]))
              /\ result.kind \notin {"UserAborted"}
        /\ ~Called("copy_audio") => AudioTarget \notin Modified
        /\ (Done /\ Cfg.keep_audio /\ result.kind = "Ok" /\ at_cp2 = "clear") =>
              Called("copy_audio")

\* two files written under --name, then the audio kept under the same name
C25_Witness ==
    /\ Done
    /\ IsSome(config)
    /\ Cfg.keep_audio
    /\ ~Cfg.stdout_mode
    /\ Cfg.custom_name = Some(<<"o">>)
    /\ Len(Writes) = 2
    /\ Called("copy_audio")
    /\ AudioTarget \in Modified
    /\ result.kind = "Ok"

\* the Emit stage ended in an error: a refused prompt, or a failed write or copy
EmitFailed ==
    /\ Done
    /\ FileMode
    /\ at_cp2 = "clear"
    /\ result.kind \in {"UserAborted", "Io"}

\* format j was written and its file holds what was written
Intact(j) ==
    /\ Target(j) \in DOMAIN fs
    /\ fs[Target(j)] = Render(Cfg.formats[j], Unwrap(transcript))

\* C26 as stated, for a run that showed no prompt: when the Emit stage fails at
\* format i, every file written for a format before i is on disk with the
\* content written.
C26_NoRollback ==
    (EmitFailed /\ ~Called("prompt")) => \A j \in 1..(idx - 1) : Intact(j)

\* C26: when the Emit stage fails or is aborted at format i, every file written
\* for a format before i is on disk with the content written, except a file
\* that format i itself targets (a repeated format), which the failed write of
\* format i may have left truncated.
C26_NoRollbackOfOtherFiles ==
    EmitFailed =>
        \A j \in 1..(idx - 1) :
            (idx > Len(Cfg.formats) \/ Target(j) # Target(idx)) => Intact(j)

\* the second of two different formats failed; the first file is in place
C26_Witness ==
    /\ EmitFailed
    /\ result.kind = "Io"
    /\ idx = 2
    /\ Len(Cfg.formats) = 2
    /\ Target(1) # Target(2)
    /\ Target(1) \notin DOMAIN fs0
    /\ Intact(1)

\* the user answered yes to a prompt naming path
Confirmed(path) ==
    \E i \in 1..(Len(trace) - 1) :
        /\ trace[i] = Event("prompt", path)
        /\ trace[i + 1].ev = "response"
        /\ trace[i + 1].arg \in YesResponses

\* a file that was in output_dir before the run no longer holds what it held
Replaced(path) == path \in DOMAIN fs0 /\ (path \notin DOMAIN fs \/ fs[path] # fs0[path])

\* C27 as stated, for a file-mode run with at least one format and a usable
\* base name: with overwrite_files false, no file that was in output_dir
\* before the run, {base_name}.mp3 included, is replaced unless the user
\* answered yes to a prompt naming that file.
C27_NoSilentOverwrite ==
    (/\ IsSome(config)
     /\ ~Cfg.overwrite_files
     /\ ~Cfg.stdout_mode
     /\ Cfg.formats # <<>>
     /\ Cfg.custom_name # Some(<<>>)) =>
        \A path \in DOMAIN fs0 : Replaced(path) => Confirmed(path)

\* none of the files the Emit stage targets was in output_dir before the run
NoTargetExists ==
    /\ IsSome(config)
    /\ IsSome(transcript)
    /\ ~Cfg.stdout_mode
    /\ \A i \in 1..Len(Cfg.formats) : Target(i) \notin DOMAIN fs0

\* C28 as stated: when none of the target files exists before the Emit stage
\* starts, the run shows no overwrite prompt and does not end with
\* UserAborted, whatever format list parse_formats accepted, repeats included.
C28_NoPromptForOwnFiles ==
    NoTargetExists => (~Called("prompt") /\ result.kind # "UserAborted")

\* ------------------------------------------- parse_formats, failure priority
\* the positions of the tokens that name no format
InvalidAt(toks) == {i \in 1..Len(toks) : toks[i].names = "invalid"}

FirstInvalid(toks) == CHOOSE i \in InvalidAt(toks) : \A j \in InvalidAt(toks) : i <= j

NonBlank(toks) == {i \in 1..Len(toks) : toks[i].names # "blank"}

\* C29: when some non-empty trimmed token is unrecognized, parse_formats fails
\* with InvalidFormat carrying the first such token from the left, in stdout
\* mode with several tokens too; MultipleFormatsWithStdout is returned only
\* when every token is valid; a success keeps the tokens' order and has one
\* entry per non-empty token.
C29_FailurePriority ==
    Returned =>
        LET toks == fn_in.tokens
        IN  /\ InvalidAt(toks) # {} =>
                   /\ ~Ret.ok
                   /\ Ret.err.kind = "InvalidFormat"
                   /\ Ret.err.arg = Some(trim(toks[FirstInvalid(toks)].text))
            /\ (~Ret.ok /\ Ret.err.kind = "MultipleFormatsWithStdout") =>
                   /\ AllValid(toks)
                   /\ fn_in.stdout_mode
                   /\ Len(Named(toks)) > 1
            /\ Ret.ok =>
                   /\ Ret.val = Named(toks)
                   /\ Len(Ret.val) = Cardinality(NonBlank(toks))

\* stdout mode, a valid token ahead of two different invalid ones: the first
\* invalid one is reported
C29_Witness ==
    /\ Returned
    /\ fn_in.stdout_mode
    /\ Len(fn_in.tokens) = 3
    /\ fn_in.tokens[1].names \in OutputFormats
    /\ fn_in.tokens[2].names = "invalid"
    /\ fn_in.tokens[3].names = "invalid"
    /\ trim(fn_in.tokens[2].text) # trim(fn_in.tokens[3].text)
    /\ fn_in.tokens[2].text # trim(fn_in.tokens[2].text)
    /\ ~Ret.ok
    /\ Ret.err = Error("InvalidFormat", Some(trim(fn_in.tokens[2].text)))

\* ------------------------------------------------------------- termination
\* a step of the main thread: the return of the collaborator call or prompt in
\* flight, or the code between two of them
MainStep ==
    \/ CheckFfmpegReturn
    \/ ProcessStart
    \/ DownloadReturn
    \/ ConvertReturn
    \/ CopyInputReturn
    \/ Checkpoint1
    \/ TranscribeReturn
    \/ Checkpoint2
    \/ EmitFormat
    \/ PromptResponse
    \/ WriteReturn
    \/ KeepAudioReturn

\* main calls run: Run is enabled in every state with pc = "run" and in no
\* other, and no step leads back to "run", so weak fairness of Run is that
\* the process leaves "run"
Started == pc # "run"

\* the run when main calls run, every collaborator call and every prompt
\* returns and the main thread keeps running; the signal handler fires when
\* it will, or never
SpecFair == Init /\ [][Next]_vars /\ []<>Started /\ WF_vars(MainStep)

Terminal == Done /\ exit_code \in {0, 1}

\* C30: when every collaborator call and every prompt eventually returns, the
\* run reaches a terminal state with exit code 0 or 1, whenever the signal
\* handler fires; the format list is walked at most once: the loop index
\* never goes back and no more formats are rendered than the list holds.
C30_Terminates ==
    /\ <>Terminal
    /\ [][idx' >= idx]_vars
    /\ [](IsSome(config) => Len(Renders) <= Len(Cfg.formats))

\* a run that ended after the whole format list, with signals delivered on
\* the way
C30_Witness ==
    /\ Terminal
    /\ signals = MaxSignals
    /\ IsSome(config)
    /\ Len(Cfg.formats) > 1
    /\ Len(Renders) = Len(Cfg.formats)
    /\ idx = Len(Cfg.formats) + 1

====
